---------------------------- MODULE Spec2Model ----------------------------
(***************************************************************************)
(* A model of LiTest (src/src/litest.hpp): the TestSuite run loop, the     *)
(* assertion functions and the calls they make on the result formatter.    *)
(*                                                                         *)
(* A run (runSome) is one synchronous call; it is cut here into its steps  *)
(* (prologue, loop head, the statements of the test body, the catch        *)
(* handlers, the footer, the epilogue) so that the states "during a run"   *)
(* are states of the model.  A test body is code supplied by the user: at  *)
(* each step it issues one assertion, throws, or returns.                  *)
(***************************************************************************)
EXTENDS Integers, Sequences, FiniteSets, TLC

VARIABLES
    suite,      \* the TestSuite object: tests, mode, output, totalStats_, stats_, counter
    log,        \* the formatter calls received by the formatter of the latest run
    live,       \* the formatter objects constructed and not yet deleted
    nextId,     \* identity of the next formatter object to be constructed
    pc,         \* position in runSome: "idle" when no run is in progress
    entry,      \* the function called for the latest run: "run" or "runSome"
    testIdx,    \* runSome's parameter testIdx: the elements the for loop has read so far
    test,       \* runSome's local `test`, the copy of tests[index]
    runs,       \* number of runSome calls made so far
    issued,     \* number of assertions issued so far by test bodies
    hist,       \* history, where it is kept: the modes the runs so far were called
                \* with, and the twin of the run in progress
    formatter,  \* the class (and log level) of the formatter whose output is followed
    ostr        \* what that formatter has written to its output stream

vars == <<suite, log, live, nextId, pc, entry, testIdx, test, runs, issued, hist,
          formatter, ostr>>

-----------------------------------------------------------------------------
(* Bounds of the model *)

MaxTests == 2       \* tests registered in the suite
MaxRuns == 2        \* calls of run/runSome
MaxIdx == 2         \* length of the index vector given to runSome
MaxIssued == 2      \* assertions issued by test bodies, over all runs

-----------------------------------------------------------------------------
(* Enumerations and inputs *)

Mode == {"Continue", "Throw"}
OnAssertionFailure == {"Continue", "Abort"}
AssertionResult == {"Passed", "Failed"}

\* Line numbers passed to assertions: 0 is the default "unknown line".
Lines == {0, 10}

\* Values compared by equal, and whether their type T can be streamed.
Values == {5, 6}
Expected == {5}
ValueTypes == {"Printable", "NonPrintable"}

\* What a callable given to an assertion does when invoked: it returns a
\* value, or throws a std::exception ("std"), a std::out_of_range ("range") or
\* an object that is no std::exception ("other").
ExceptionTypes == {"std", "range", "other"}
Returns(v) == [does |-> "return", val |-> v, what |-> "std"]
Throwing(v) == {[does |-> "throw", val |-> v, what |-> w] : w \in ExceptionTypes}

\* what a test body throws outside of assertions
BodyExceptions == {"std", "other"}

BoolFuncs == {Returns(TRUE), Returns(FALSE)} \cup Throwing(FALSE)
ValueFuncs == {Returns(v) : v \in Values} \cup Throwing(0)
VoidFuncs == {Returns(0)} \cup Throwing(0)

NoExc == [type |-> "none", line |-> 0, msg |-> ""]
TestAbortException(line, msg) == [type |-> "TestAbortException", line |-> line, msg |-> msg]
AssertionFailureException(msg) == [type |-> "AssertionFailureException", line |-> 0, msg |-> msg]
\* what a callable or a test body throws itself
Thrown(what) == [type |-> what, line |-> 0, msg |-> "what"]

\* Whether a handler `catch (std::exception &)` catches the exception.
IsStdException(e) ==
    e.type \in {"TestAbortException", "AssertionFailureException", "std", "range"}

TestStats == [passes |-> 0, fails |-> 0]

Test(ind) == [index |-> ind, aborted |-> FALSE]


-----------------------------------------------------------------------------
(* The calls made on the formatter (TestResultFormatter's virtual hooks) *)

Event(name, line, a, b) ==
    [ev |-> name, line |-> line, a |-> a, b |-> b,
     index |-> 0, aborted |-> FALSE, passes |-> 0, fails |-> 0]

TestEvent(name, t, stats) ==
    [ev |-> name, line |-> 0, a |-> "", b |-> "",
     index |-> t.index, aborted |-> t.aborted,
     passes |-> stats.passes, fails |-> stats.fails]

\* suite.output->formatX(...): the call is received by the formatter of the run
Emit(c, e) == [c EXCEPT !.log = Append(@, e)]

\* internal::descriptionIfAvailable: operator<< if T has one, else the fallback
descriptionIfAvailable(T, v) == IF T = "Printable" THEN ToString(v) ELSE "N/A"

-----------------------------------------------------------------------------
(* TestSuite's counters.  stats_[counter] of the code is stats_[counter + 1]
   here: sequences start at 1. *)

startTest(s) == [s EXCEPT !.counter = @ + 1, !.stats_ = Append(@, TestStats)]
\* passed forgetting the current test's stats
passed_TotalOnly(s) == [s EXCEPT !.totalStats_.passes = @ + 1]

\* passed counting failures
passed_AsFailure(s) ==
    [s EXCEPT !.totalStats_.fails = @ + 1, !.stats_[s.counter + 1].fails = @ + 1]

passed(s) ==
    [s EXCEPT !.totalStats_.passes = @ + 1, !.stats_[s.counter + 1].passes = @ + 1]

\* failed forgetting the current test's stats
failed_TotalOnly(s) == [s EXCEPT !.totalStats_.fails = @ + 1]

failed(s) ==
    [s EXCEPT !.totalStats_.fails = @ + 1, !.stats_[s.counter + 1].fails = @ + 1]

\* currentTestStats reading the first slot
currentTestStats_FirstSlot(s) == s.stats_[1]

currentTestStats(s) == s.stats_[s.counter + 1]

totalTestStats(s) == s.totalStats_

-----------------------------------------------------------------------------
(* The assertion functions.  Each takes the context c = [suite, log] and
   gives the context it leaves, with either the value it returns (ret) or
   the exception it leaves with (exc). *)

Return(c, r) == [suite |-> c.suite, log |-> c.log, exc |-> NoExc, ret |-> r]
Throw(c, e) == [suite |-> c.suite, log |-> c.log, exc |-> e, ret |-> "none"]
Context(r) == [suite |-> r.suite, log |-> r.log]
\* a pass that also counts as a failure
Passed_CountsTwice(c) == [c EXCEPT !.suite = failed(passed(c.suite))]

Passed(c) == [c EXCEPT !.suite = passed(c.suite)]
Failed(c) == [c EXCEPT !.suite = failed(c.suite)]
\* FailurePolicy without the Abort statement
FailurePolicy_NoAbort(c, onFail, line, hardMsg, abortMsg) ==
    IF c.suite.mode = "Throw" THEN Throw(c, AssertionFailureException(hardMsg))
    ELSE Return(c, "Failed")

\* FailurePolicy aborting whatever onFail says
FailurePolicy_AlwaysAbort(c, onFail, line, hardMsg, abortMsg) ==
    IF c.suite.mode = "Throw" THEN Throw(c, AssertionFailureException(hardMsg))
    ELSE Throw(c, TestAbortException(line, abortMsg))

\* FailurePolicy looking at onFail before the suite's mode
FailurePolicy_PolicyFirst(c, onFail, line, hardMsg, abortMsg) ==
    IF onFail = "Abort" THEN Throw(c, TestAbortException(line, abortMsg))
    ELSE IF c.suite.mode = "Throw" THEN Throw(c, AssertionFailureException(hardMsg))
    ELSE Return(c, "Failed")

\* the two statements that end every failure path
FailurePolicy(c, onFail, line, hardMsg, abortMsg) ==
    IF c.suite.mode = "Throw" THEN Throw(c, AssertionFailureException(hardMsg))
    ELSE IF onFail = "Abort" THEN Throw(c, TestAbortException(line, abortMsg))
    ELSE Return(c, "Failed")
\* reportException with onFail defaulting to Continue
reportException_Continue(c, line, msg, onFail) ==
    LET c1 == Emit([c EXCEPT !.suite = failed(c.suite)],
                   Event("UnexpectedException", line, msg, ""))
    IN  IF c1.suite.mode = "Throw"
        THEN Throw(c1, AssertionFailureException("Unexpected exception in"))
        ELSE Return(c1, "Failed")

reportException(c, line, msg, onFail) ==
    LET c1 == Emit(Failed(c), Event("UnexpectedException", line, msg, ""))
    IN  FailurePolicy(c1, onFail, line, "Unexpected exception in", "Caught in assertion")

\* the handlers `catch (std::exception &e)` and `catch (...)` that check, equal
\* and throwsType share; reportException is called without onFail (its default)
CatchUnexpected(c, e, line, fallbackMsg) ==
    IF IsStdException(e) THEN reportException(c, line, e.msg, "Abort")
    ELSE reportException(c, line, fallbackMsg, "Abort")

\* check resolving the policy before it counts and reports the failure
check_ResolvesFirst(c, func, onFail, line) ==
    IF func.does = "throw"
    THEN CatchUnexpected(c, Thrown(func.what), line, "N/A")
    ELSE IF ~func.val
         THEN IF c.suite.mode = "Throw" \/ onFail = "Abort"
              THEN FailurePolicy(c, onFail, line, "Broken assertion in", "Check failed.")
              ELSE Return(Emit(Failed(c), Event("FailedCheck", line, "", "")), "Failed")
         ELSE Return(Emit(Passed(c), Event("PassedCheck", line, "", "")), "Passed")

check(c, func, onFail, line) ==
    IF func.does = "throw"
    THEN CatchUnexpected(c, Thrown(func.what), line, "N/A")
    ELSE IF ~func.val
         THEN FailurePolicy(Emit(Failed(c), Event("FailedCheck", line, "", "")),
                            onFail, line, "Broken assertion in", "Check failed.")
         ELSE Return(Emit(Passed(c), Event("PassedCheck", line, "", "")), "Passed")

\* the try block of equal giving formatFailedEquals res before val
equalTry_Swapped(c, T, val, func, onFail, line) ==
    IF func.does = "throw" THEN Throw(c, Thrown(func.what))
    ELSE IF ~(func.val = val)
         THEN FailurePolicy(Emit(Failed(c), Event("FailedEquals", line,
                                                  descriptionIfAvailable(T, func.val),
                                                  descriptionIfAvailable(T, val))),
                            onFail, line, "Unexpected value in", "Equal failed.")
         ELSE Return(Emit(Passed(c), Event("PassedEquals", line,
                                           descriptionIfAvailable(T, val), "")),
                     "Passed")

\* the try block of equal
equalTry(c, T, val, func, onFail, line) ==
    IF func.does = "throw" THEN Throw(c, Thrown(func.what))
    ELSE IF ~(func.val = val)
         THEN FailurePolicy(Emit(Failed(c), Event("FailedEquals", line,
                                                  descriptionIfAvailable(T, val),
                                                  descriptionIfAvailable(T, func.val))),
                            onFail, line, "Unexpected value in", "Equal failed.")
         ELSE Return(Emit(Passed(c), Event("PassedEquals", line,
                                           descriptionIfAvailable(T, val), "")),
                     "Passed")

\* equal: whatever leaves the try block as an exception meets the handlers
equal(c, T, val, func, onFail, line) ==
    LET r == equalTry(c, T, val, func, onFail, line)
    IN  IF r.exc = NoExc THEN r
        ELSE CatchUnexpected(Context(r), r.exc, line, "N/A")
\* a handler that catches the named type only, not the types derived from it
Catches_ExactType(ThrownType, what) == ThrownType = what

\* `catch (ThrownType &e)`: the thrown object is of the type or derived from it
Catches(ThrownType, what) ==
    \/ ThrownType = what
    \/ ThrownType = "std" /\ what = "range"

\* throwsType taking an exception of another type for a plain failure
throwsType_WrongTypeIsFailure(c, ThrownType, func, onFail, line) ==
    IF func.does = "throw" /\ Catches(ThrownType, func.what)
    THEN Return(Emit(Passed(c), Event("PassedThrow", line, "", "")), "Passed")
    ELSE FailurePolicy(Emit(Failed(c), Event("FailedThrow", line, "", "")),
                       onFail, line, "No exception in", "No exception in throw assertion.")

throwsType(c, ThrownType, func, onFail, line) ==
    IF func.does = "throw"
    THEN IF Catches(ThrownType, func.what)
         THEN Return(Emit(Passed(c), Event("PassedThrow", line, "", "")), "Passed")
         ELSE CatchUnexpected(c, Thrown(func.what), line,
                              "Uncaught exception in exception assertion")
    ELSE FailurePolicy(Emit(Failed(c), Event("FailedThrow", line, "", "")),
                       onFail, line, "No exception in", "No exception in throw assertion.")

throws(c, func, onFail, line) ==
    IF func.does = "throw"
    THEN Return(Emit(Passed(c), Event("PassedThrow", line, "", "")), "Passed")
    ELSE FailurePolicy(Emit(Failed(c), Event("FailedThrow", line, "", "")),
                       onFail, line, "No exception in", "No exception in throw assertion.")

\* generateFailure reporting the failure without counting it
generateFailure_NoCount(c, onFail, line) ==
    FailurePolicy(Emit(c, Event("ManualFailure", line, "reason", "")),
                  onFail, line, "Manual failure, reason", "Manual failure")

generateFailure(c, onFail, line) ==
    FailurePolicy(Emit(Failed(c), Event("ManualFailure", line, "reason", "")),
                  onFail, line, "Manual failure, reason", "Manual failure")

-----------------------------------------------------------------------------
(* runSome, step by step *)

ValidIndex(s, index) == index >= 0 /\ index < Len(s.tests)

\* addTest numbering the tests from 0
addTest_FromZero(s) == [s EXCEPT !.tests = Append(@, Test(Len(s.tests)))]

\* addTest
addTest(s) == [s EXCEPT !.tests = Append(@, Test(Len(s.tests) + 1))]
\* the prologue without the reset of totalStats_
runSomePrologue_NoReset(s, mode, id) == [s EXCEPT !.mode = mode, !.output = id]

\* the prologue without the assignment of output
runSomePrologue_KeepsOutput(s, mode, id) ==
    [s EXCEPT !.mode = mode, !.totalStats_ = TestStats]

\* the prologue without the assignment of mode
runSomePrologue_KeepsMode(s, mode, id) ==
    [s EXCEPT !.output = id, !.totalStats_ = TestStats]

\* the prologue restarting the test counter
runSomePrologue_RestartsCounter(s, mode, id) ==
    [s EXCEPT !.mode = mode, !.output = id, !.totalStats_ = TestStats, !.counter = -1]

\* the prologue of runSome, up to formatTestSuiteStart
runSomePrologue(s, mode, id) ==
    [s EXCEPT !.mode = mode, !.output = id, !.totalStats_ = TestStats]

\* allIndexes counting from 1
allIndexes_FromOne(s) == [i \in 1..Len(s.tests) |-> i]

\* run's allIndexes: iota from 0
allIndexes(s) == [i \in 1..Len(s.tests) |-> i - 1]
\* the handlers with a catch (...) that forgets to mark the test
catchHandler_ForgetsFlag(t, e) ==
    [test |-> [t EXCEPT !.aborted = (e.type = "TestAbortException" \/ IsStdException(e))],
     event |-> IF e.type = "TestAbortException"
                 THEN Event("AbortedTest", e.line, e.msg, "")
               ELSE IF IsStdException(e)
                 THEN Event("AbortedTest", 0, "Uncaught exception: ", e.msg)
               ELSE Event("AbortedTest", 0, "Uncaught exception outside of assertion.", "")]

\* the catch handlers of runSome: the test as the handler leaves it, and the
\* formatAbortedTest call it makes
catchHandler(t, e) ==
    [test |-> [t EXCEPT !.aborted = TRUE],
     event |-> IF e.type = "TestAbortException"
                 THEN Event("AbortedTest", e.line, e.msg, "")
               ELSE IF IsStdException(e)
                 THEN Event("AbortedTest", 0, "Uncaught exception: ", e.msg)
               ELSE Event("AbortedTest", 0, "Uncaught exception outside of assertion.", "")]

\* the suite after construction, before any addTest or run
InitSuite ==
    /\ suite \in {[tests |-> <<>>, mode |-> m, output |-> 0,
                   totalStats_ |-> TestStats, stats_ |-> <<>>, counter |-> -1] : m \in Mode}
    /\ log = <<>>
    /\ live = {}
    /\ nextId = 1
    /\ pc = "idle"
    /\ entry = "runSome"
    /\ testIdx = <<>>
    /\ test = Test(0)
    /\ runs = 0
    /\ issued = 0

\* A suite just constructed, whose mode member holds m, after n addTest.
RECURSIVE Constructed(_, _)
Constructed(n, m) ==
    IF n = 0
    THEN [tests |-> <<>>, mode |-> m, output |-> 0,
          totalStats_ |-> TestStats, stats_ |-> <<>>, counter |-> -1]
    ELSE addTest(Constructed(n - 1, m))

\* The twin of a run: the same call of run/runSome made on a suite just
\* constructed with the same tests, reading the same indexes, its test
\* bodies making the same calls and throwing the same exceptions.
NoTwin == [suite |-> Constructed(0, "Continue"), log |-> <<>>, test |-> Test(0)]

\* The runs leave the class of their formatter open (it is the template
\* parameter of run and runSome): the calls it receives are followed, not
\* what it writes.
NoFormatter == [class |-> "TestResultFormatter", level |-> 0]

\* no history is kept
Init ==
    /\ InitSuite
    /\ hist = [on |-> FALSE, modes |-> <<>>, twin |-> NoTwin]
    /\ formatter = NoFormatter
    /\ ostr = <<>>

\* the history of the runs is kept
HistInit ==
    /\ InitSuite
    /\ hist = [on |-> TRUE, modes |-> <<>>, twin |-> NoTwin]
    /\ formatter = NoFormatter
    /\ ostr = <<>>

\* the context of the twin's assertion calls
Twin == [suite |-> hist.twin.suite, log |-> hist.twin.log]

\* the twin goes on as n says
TwinGoesTo(n) ==
    hist' = IF hist.on
            THEN [hist EXCEPT !.twin = [suite |-> n.suite, log |-> n.log, test |-> n.test]]
            ELSE hist

AddTest ==
    /\ pc = "idle"
    /\ Len(suite.tests) < MaxTests
    /\ suite' = addTest(suite)
    /\ UNCHANGED <<log, live, nextId, pc, entry, testIdx, test, runs, issued, hist, formatter, ostr>>

\* run or runSome is called: the prologue of runSome
Enter(mode, e) ==
    /\ pc = "idle"
    /\ runs < MaxRuns
    /\ suite' = runSomePrologue(suite, mode, nextId)
    /\ live' = live \cup {nextId}
    /\ nextId' = nextId + 1
    /\ log' = <<TestEvent("TestSuiteStart", Test(0), TestStats)>>
    /\ entry' = e
    /\ testIdx' = <<>>
    /\ pc' = "loop"
    /\ runs' = runs + 1
    /\ \E m \in Mode :
          hist' = IF hist.on
                  THEN [hist EXCEPT
                          !.modes = Append(@, mode),
                          !.twin = [suite |-> runSomePrologue(
                                                 Constructed(Len(suite.tests), m), mode, nextId),
                                    log |-> <<TestEvent("TestSuiteStart", Test(0), TestStats)>>,
                                    test |-> Test(0)]]
                  ELSE hist
    /\ UNCHANGED <<test, issued, formatter, ostr>>

RunSome == \E mode \in Mode : Enter(mode, "runSome")

Run == \E mode \in Mode : Enter(mode, "run")

\* The elements the for loop can read next from its vector: any index for
\* runSome (while the vector has fewer than MaxIdx elements), the next
\* element of allIndexes for run.
NextIndexes ==
    IF entry = "run"
    THEN {allIndexes(suite)[i] : i \in {Len(testIdx) + 1} \cap DOMAIN allIndexes(suite)}
    ELSE IF Len(testIdx) < MaxIdx THEN -1..Len(suite.tests) ELSE {}

\* whether the vector can end where the loop stands
AtEnd == entry = "run" => Len(testIdx) = Len(suite.tests)

\* a skipped index that opens a stats slot all the same
SkipIndex_OpensSlot ==
    /\ pc = "loop"
    /\ \E index \in NextIndexes :
          /\ ~ValidIndex(suite, index)
          /\ testIdx' = Append(testIdx, index)
    /\ suite' = startTest(suite)
    /\ UNCHANGED <<log, live, nextId, pc, entry, test, runs, issued, hist, formatter, ostr>>

SkipIndex ==
    /\ pc = "loop"
    /\ \E index \in NextIndexes :
          /\ ~ValidIndex(suite, index)
          /\ testIdx' = Append(testIdx, index)
    /\ UNCHANGED <<suite, log, live, nextId, pc, entry, test, runs, issued, hist, formatter, ostr>>

BeginTest ==
    /\ pc = "loop"
    /\ \E index \in NextIndexes :
          /\ ValidIndex(suite, index)
          /\ testIdx' = Append(testIdx, index)
          /\ test' = suite.tests[index + 1]
          /\ TwinGoesTo([suite |-> startTest(hist.twin.suite),
                         test |-> hist.twin.suite.tests[index + 1],
                         log |-> Append(hist.twin.log,
                                        TestEvent("TestHeader",
                                                  hist.twin.suite.tests[index + 1],
                                                  TestStats))])
    /\ suite' = startTest(suite)
    /\ log' = Append(log, TestEvent("TestHeader", test', TestStats))
    /\ pc' = "body"
    /\ UNCHANGED <<live, nextId, entry, runs, issued, formatter, ostr>>

\* the loop body without the footer after a catch handler
endTest_NoFooterOnThrow(s, lg, t, e) ==
    IF e = NoExc
    THEN [suite |-> s, test |-> t, pc |-> "loop",
          log |-> Append(lg, TestEvent("TestFooter", t, currentTestStats(s)))]
    ELSE LET h == catchHandler(t, e)
         IN  [suite |-> s, test |-> h.test, pc |-> "loop", log |-> Append(lg, h.event)]

\* a loop body with no catch handlers: what the body throws leaves runSome
endTest_NoHandlers(s, lg, t, e) ==
    IF e = NoExc
    THEN [suite |-> s, test |-> t, pc |-> "loop",
          log |-> Append(lg, TestEvent("TestFooter", t, currentTestStats(s)))]
    ELSE [suite |-> s, test |-> t, pc |-> "idle", log |-> lg]

\* a loop body whose handlers of other exceptions count a failure
endTest_CountsThrow(s, lg, t, e) ==
    IF e = NoExc
    THEN [suite |-> s, test |-> t, pc |-> "loop",
          log |-> Append(lg, TestEvent("TestFooter", t, currentTestStats(s)))]
    ELSE LET h == catchHandler(t, e)
             sf == IF e.type = "TestAbortException" THEN s ELSE failed(s)
         IN  [suite |-> sf, test |-> h.test, pc |-> "loop",
              log |-> Append(Append(lg, h.event),
                             TestEvent("TestFooter", h.test, currentTestStats(sf)))]

\* a loop body working on the suite's test record instead of a copy
endTest_MarksSuiteRecord(s, lg, t, e) ==
    IF e = NoExc
    THEN [suite |-> s, test |-> t, pc |-> "loop",
          log |-> Append(lg, TestEvent("TestFooter", t, currentTestStats(s)))]
    ELSE LET h == catchHandler(t, e)
         IN  [suite |-> [s EXCEPT !.tests[t.index].aborted = TRUE],
              test |-> h.test, pc |-> "loop",
              log |-> Append(Append(lg, h.event),
                             TestEvent("TestFooter", h.test, currentTestStats(s)))]

\* The rest of the loop body of runSome once test.func has left with
\* exception e (NoExc: it returned): a catch handler if it threw, then
\* formatTestFooter.  Gives the suite, the log, the local test and the
\* position runSome is left with.
endTest(s, lg, t, e) ==
    IF e = NoExc
    THEN [suite |-> s, test |-> t, pc |-> "loop",
          log |-> Append(lg, TestEvent("TestFooter", t, currentTestStats(s)))]
    ELSE LET h == catchHandler(t, e)
         IN  [suite |-> s, test |-> h.test, pc |-> "loop",
              log |-> Append(Append(lg, h.event),
                             TestEvent("TestFooter", h.test, currentTestStats(s)))]

\* Where the run stands once an assertion function called by the test body
\* has left as r says: it returned to the body, or threw through the body
\* into runSome.
afterCall(r, t) ==
    IF r.exc = NoExc
    THEN [suite |-> r.suite, test |-> t, pc |-> "body", log |-> r.log]
    ELSE endTest(r.suite, r.log, t, r.exc)

GoesTo(n) ==
    /\ suite' = n.suite
    /\ log' = n.log
    /\ test' = n.test
    /\ pc' = n.pc

\* the test body has called an assertion function, which left as r says
\* (as rt says in the twin)
Asserted(r, rt) ==
    /\ GoesTo(afterCall(r, test))
    /\ TwinGoesTo(afterCall(rt, hist.twin.test))
    /\ issued' = issued + 1
    /\ UNCHANGED <<live, nextId, entry, testIdx, runs, formatter, ostr>>

InBody == pc = "body" /\ issued < MaxIssued

Here == [suite |-> suite, log |-> log]

Check ==
    /\ InBody
    /\ \E func \in BoolFuncs, onFail \in OnAssertionFailure, line \in Lines :
           Asserted(check(Here, func, onFail, line),
                    check(Twin, func, onFail, line))

Equal ==
    /\ InBody
    /\ \E T \in ValueTypes, val \in Expected, func \in ValueFuncs,
          onFail \in OnAssertionFailure, line \in Lines :
           Asserted(equal(Here, T, val, func, onFail, line),
                    equal(Twin, T, val, func, onFail, line))

Throws ==
    /\ InBody
    /\ \E func \in VoidFuncs, onFail \in OnAssertionFailure, line \in Lines :
           Asserted(throws(Here, func, onFail, line),
                    throws(Twin, func, onFail, line))

ThrowsType ==
    /\ InBody
    /\ \E ThrownType \in ExceptionTypes, func \in VoidFuncs,
          onFail \in OnAssertionFailure, line \in Lines :
           Asserted(throwsType(Here, ThrownType, func, onFail, line),
                    throwsType(Twin, ThrownType, func, onFail, line))

GenerateFailure ==
    /\ InBody
    /\ \E onFail \in OnAssertionFailure, line \in Lines :
           Asserted(generateFailure(Here, onFail, line),
                    generateFailure(Twin, onFail, line))

\* the test body throws outside of any assertion
BodyThrow ==
    /\ pc = "body"
    /\ \E what \in BodyExceptions :
          /\ GoesTo(endTest(suite, log, test, Thrown(what)))
          /\ TwinGoesTo(endTest(hist.twin.suite, hist.twin.log, hist.twin.test, Thrown(what)))
    /\ UNCHANGED <<live, nextId, entry, testIdx, runs, issued, formatter, ostr>>

\* test.func returns
BodyReturn ==
    /\ pc = "body"
    /\ GoesTo(endTest(suite, log, test, NoExc))
    /\ TwinGoesTo(endTest(hist.twin.suite, hist.twin.log, hist.twin.test, NoExc))
    /\ UNCHANGED <<live, nextId, entry, testIdx, runs, issued, formatter, ostr>>

\* after the loop: formatTestSuiteEnd, delete output
Leave ==
    /\ pc = "loop"
    /\ AtEnd
    /\ log' = Append(log, TestEvent("TestSuiteEnd", Test(0), totalTestStats(suite)))
    /\ live' = live \ {suite.output}
    /\ pc' = "idle"
    /\ TwinGoesTo([suite |-> hist.twin.suite, test |-> hist.twin.test,
                   log |-> Append(hist.twin.log,
                                  TestEvent("TestSuiteEnd", Test(0),
                                            totalTestStats(hist.twin.suite)))])
    /\ UNCHANGED <<suite, nextId, entry, testIdx, test, runs, issued, formatter, ostr>>

Next ==
    \/ AddTest
    \/ RunSome
    \/ Run
    \/ SkipIndex
    \/ BeginTest
    \/ Check
    \/ Equal
    \/ Throws
    \/ ThrowsType
    \/ GenerateFailure
    \/ BodyThrow
    \/ BodyReturn
    \/ Leave

Spec == Init /\ [][Next]_vars

\* A step of a run in progress.  run/runSome is one synchronous call: once
\* entered, its code goes on, and a test body that terminates goes on to
\* its return or to a throw.
RunStep ==
    \/ SkipIndex
    \/ BeginTest
    \/ Check
    \/ Equal
    \/ Throws
    \/ ThrowsType
    \/ GenerateFailure
    \/ BodyThrow
    \/ BodyReturn
    \/ Leave

\* The inputs of the runs checked for termination: assertions are given
\* without a line number (the default, 0) and compare values of a type that
\* can be streamed.  Neither input is read by a condition of the code.
LiveInputs == \A i \in DOMAIN log' : log'[i].line = 0 /\ log'[i].a # "N/A"

LiveNext ==
    \/ AddTest /\ LiveInputs
    \/ RunSome /\ LiveInputs
    \/ Run /\ LiveInputs
    \/ SkipIndex /\ LiveInputs
    \/ BeginTest /\ LiveInputs
    \/ Check /\ LiveInputs
    \/ Equal /\ LiveInputs
    \/ Throws /\ LiveInputs
    \/ ThrowsType /\ LiveInputs
    \/ GenerateFailure /\ LiveInputs
    \/ BodyThrow /\ LiveInputs
    \/ BodyReturn /\ LiveInputs
    \/ Leave /\ LiveInputs

\* the same runs, with their history kept
HistSpec == HistInit /\ [][LiveNext]_vars

\* the runs whose test bodies terminate
LiveSpec == Init /\ [][LiveNext]_vars /\ WF_vars(RunStep /\ LiveInputs)

-----------------------------------------------------------------------------
(* Vocabulary of the properties *)

\* The assertion calls a test body can make.
CallRecord(kind, T, val, ThrownType, func, onFail, line) ==
    [kind |-> kind, T |-> T, val |-> val, ThrownType |-> ThrownType,
     func |-> func, onFail |-> onFail, line |-> line]

\* check's callable returns a BOOLEAN; the call record keeps it as 1 or 0
BoolCall(f) == [f EXCEPT !.val = IF f.val THEN 1 ELSE 0]
BoolFunc(f) == [f EXCEPT !.val = (f.val = 1)]

Calls ==
         {CallRecord("check", "Printable", 0, "std", BoolCall(f), onFail, line) :
             f \in BoolFuncs, onFail \in OnAssertionFailure, line \in Lines}
    \cup {CallRecord("equal", T, val, "std", f, onFail, line) :
             T \in ValueTypes, val \in Expected, f \in ValueFuncs,
             onFail \in OnAssertionFailure, line \in Lines}
    \cup {CallRecord("throws", "Printable", 0, "std", f, onFail, line) :
             f \in VoidFuncs, onFail \in OnAssertionFailure, line \in Lines}
    \cup {CallRecord("throwsType", "Printable", 0, ThrownType, f, onFail, line) :
             ThrownType \in ExceptionTypes, f \in VoidFuncs,
             onFail \in OnAssertionFailure, line \in Lines}
    \cup {CallRecord("generateFailure", "Printable", 0, "std", Returns(0), onFail, line) :
             onFail \in OnAssertionFailure, line \in Lines}

\* what the call does in context c
Eval(c, call) ==
    CASE call.kind = "check" -> check(c, BoolFunc(call.func), call.onFail, call.line)
      [] call.kind = "equal" -> equal(c, call.T, call.val, call.func, call.onFail, call.line)
      [] call.kind = "throws" -> throws(c, call.func, call.onFail, call.line)
      [] call.kind = "throwsType" ->
             throwsType(c, call.ThrownType, call.func, call.onFail, call.line)
      [] call.kind = "generateFailure" -> generateFailure(c, call.onFail, call.line)

\* the step in which the test body makes the call
Issues(call) == pc = "body" /\ Asserted(Eval(Here, call), Eval(Twin, call))

\* A thrown object is of the type an exception assertion names (or derived).
OfType(what, ThrownType) ==
    what = ThrownType \/ (what = "range" /\ ThrownType = "std")

\* What the documentation makes of a call: it passes, fails, or errs (an
\* exception nobody asked for).
Outcome(call) ==
    CASE call.kind = "check" ->
             IF call.func.does = "throw" THEN "error"
             ELSE IF call.func.val = 1 THEN "pass" ELSE "fail"
      [] call.kind = "equal" ->
             IF call.func.does = "throw" THEN "error"
             ELSE IF call.func.val = call.val THEN "pass" ELSE "fail"
      [] call.kind = "throws" ->
             IF call.func.does = "throw" THEN "pass" ELSE "fail"
      [] call.kind = "throwsType" ->
             IF call.func.does # "throw" THEN "fail"
             ELSE IF OfType(call.func.what, call.ThrownType) THEN "pass" ELSE "error"
      [] call.kind = "generateFailure" -> "fail"

PassEvents == {"PassedCheck", "PassedEquals", "PassedThrow"}
FailEvents == {"FailedCheck", "FailedEquals", "FailedThrow",
               "UnexpectedException", "ManualFailure"}

Count(lg, evs) == Cardinality({i \in DOMAIN lg : lg[i].ev \in evs})

Last(lg) == lg[Len(lg)]

\* position of the header of the test that event i of the log belongs to
HeaderOf(lg, i) ==
    LET hs == {h \in 1..i : lg[h].ev = "TestHeader"}
    IN  CHOOSE h \in hs : \A g \in hs : g <= h

\* the events of the test whose footer is event i, header and footer excluded
Between(lg, i) == SubSeq(lg, HeaderOf(lg, i) + 1, i - 1)

Footers(lg) == {i \in DOMAIN lg : lg[i].ev = "TestFooter"}

\* the events of the test in progress, after its header
Current == SubSeq(log, HeaderOf(log, Len(log)) + 1, Len(log))

\* where the run stands after the test body, in the current state, makes the call
After(call) == afterCall(Eval(Here, call), test)

\* where the run stands after the test body throws outside of any assertion
AfterThrow(what) == endTest(suite, log, test, Thrown(what))

\* where the run stands after the test body returns
AfterReturn == endTest(suite, log, test, NoExc)

\* n is a test ended as aborted: after the calls of lg, one formatAbortedTest
\* call, then the footer with aborted = TRUE and the test's stats, and the
\* loop of runSome is next.
EndsAborted(n, lg) ==
    /\ n.pc = "loop"
    /\ n.test.aborted
    /\ Len(n.log) = Len(lg) + 2
    /\ SubSeq(n.log, 1, Len(lg)) = lg
    /\ n.log[Len(lg) + 1].ev = "AbortedTest"
    /\ n.log[Len(lg) + 2] =
          TestEvent("TestFooter", [test EXCEPT !.aborted = TRUE], currentTestStats(n.suite))

\* A step outside of a test body asserts nothing: no counter of the run
\* changes and no assertion is reported.
NothingAsserted ==
    /\ suite'.totalStats_ = suite.totalStats_
    /\ Count(log', PassEvents \cup FailEvents) = Count(log, PassEvents \cup FailEvents)

-----------------------------------------------------------------------------
(* Properties.  A property of an assertion call is stated of every state in
   which a test body is running, for the step the body takes by making the
   call there. *)

AbortCalls == {call \in Calls : call.onFail = "Abort" /\ Outcome(call) = "fail"}

\* C1: in Continue mode a failing assertion with Abort policy, of any kind,
\* ends the test body: the test is marked aborted, its footer carries
\* aborted = TRUE and a failure, and the loop of runSome is next; once the
\* body is left no counter changes and no assertion is reported until the
\* next test starts.
C1_AbortStopsBody ==
    /\ [](pc = "body" /\ suite.mode = "Continue" =>
            \A call \in AbortCalls :
               LET n == After(call)
               IN  /\ EndsAborted(n, Eval(Here, call).log)
                   /\ Last(n.log).aborted
                   /\ Last(n.log).fails >= 1)
    /\ [][pc = "loop" => NothingAsserted]_vars

\* C1 witness: two tests of a Continue run were aborted by failing Abort
\* assertions (a check, a manual failure); each footer says aborted and
\* shows the single failure.
C1_Witness ==
    /\ suite.mode = "Continue"
    /\ pc = "loop"
    /\ \E i, j \in Footers(log) :
          /\ i < j
          /\ log[i].aborted /\ log[i].passes = 0 /\ log[i].fails = 1
          /\ log[j].aborted /\ log[j].passes = 0 /\ log[j].fails = 1
          /\ log[i - 1].ev = "AbortedTest" /\ log[i - 1].a = "Check failed."
          /\ log[j - 1].ev = "AbortedTest" /\ log[j - 1].a = "Manual failure"

ContinueCalls == {call \in Calls : call.onFail = "Continue" /\ Outcome(call) = "fail"}

\* C2: in Continue mode a failing assertion with Continue policy returns
\* Failed and raises nothing: the body goes on, the test is not marked
\* aborted and no formatAbortedTest call is made; when the body then
\* returns, its footer carries aborted = FALSE.  check(true) then
\* check(false) leaves the test's stats at {passes: 1, fails: 1}.
C2_ContinueGoesOn ==
    pc = "body" =>
       /\ suite.mode = "Continue" =>
             \A call \in ContinueCalls :
                LET r == Eval(Here, call)
                    n == afterCall(r, test)
                IN  /\ r.ret = "Failed"
                    /\ r.exc = NoExc
                    /\ n.pc = "body"
                    /\ n.test = test
                    /\ Count(n.log, {"AbortedTest"}) = Count(log, {"AbortedTest"})
       /\ ~test.aborted
       /\ Count(Current, {"AbortedTest"}) = 0
       /\ LET footer == Last(AfterReturn.log)
          IN  /\ footer.ev = "TestFooter"
              /\ ~footer.aborted
              /\ (/\ Len(Current) = 2
                  /\ Current[1].ev = "PassedCheck"
                  /\ Current[2].ev = "FailedCheck")
                 => /\ currentTestStats(suite) = [passes |-> 1, fails |-> 1]
                    /\ footer.passes = 1
                    /\ footer.fails = 1

\* C2 witness: the footer of a test whose body made check(true), then
\* check(false) with Continue policy, and returned.
C2_Witness ==
    /\ suite.mode = "Continue"
    /\ pc = "loop"
    /\ Len(log) = 5
    /\ log[3].ev = "PassedCheck"
    /\ log[4].ev = "FailedCheck"
    /\ log[5].ev = "TestFooter"
    /\ ~log[5].aborted /\ log[5].passes = 1 /\ log[5].fails = 1

ErrorCalls ==
    {call \in Calls : call.kind \in {"check", "equal"} /\ Outcome(call) = "error"}

\* C3: when the callable given to check or equal throws, the fail counters
\* of the current test and of the suite go up by 1, one
\* formatUnexpectedException call is made, and the test is aborted whatever
\* policy the caller gave: its body is left and its footer says aborted.
C3_ErrorAlwaysAborts ==
    pc = "body" =>
       \A call \in ErrorCalls :
          LET n == After(call)
          IN  /\ n.suite.totalStats_ = [suite.totalStats_ EXCEPT !.fails = @ + 1]
              /\ currentTestStats(n.suite) =
                    [currentTestStats(suite) EXCEPT !.fails = @ + 1]
              /\ EndsAborted(n, Append(log, Event("UnexpectedException", call.line,
                                                  n.log[Len(log) + 1].a, "")))

\* C3 witness: a test of a Continue run was aborted after its second
\* assertion, given at line 10, erred: the footer shows the pass before it
\* and the one failure.
C3_Witness ==
    /\ suite.mode = "Continue"
    /\ pc = "loop"
    /\ Len(log) = 6
    /\ log[3].ev = "PassedEquals"
    /\ log[4].ev = "UnexpectedException" /\ log[4].line = 10
    /\ log[5].ev = "AbortedTest" /\ log[5].a = "Caught in assertion"
    /\ log[6].ev = "TestFooter"
    /\ log[6].aborted /\ log[6].passes = 1 /\ log[6].fails = 1

\* C4 (as claimed): in Throw mode a failed or erring assertion ends the run:
\* the exception it throws is not caught by runSome, so no formatAbortedTest
\* call follows it and no test is started after it.
C4_HardFailureEndsRun ==
    suite.mode = "Throw" =>
       \A i \in DOMAIN log :
          log[i].ev \in FailEvents =>
             \A j \in (i + 1)..Len(log) : log[j].ev \notin {"AbortedTest", "TestHeader"}

\* C5 (as claimed): every assertion call changes exactly one kind of counter
\* by exactly 1, passes if it passes and fails otherwise, alike in the
\* current test's stats and in the suite's total, and makes exactly one
\* formatter call reporting the assertion.
C5_OneCountOneEvent ==
    [][ \A call \in Calls :
           Issues(call) =>
              LET delta == IF Outcome(call) = "pass"
                           THEN [passes |-> 1, fails |-> 0]
                           ELSE [passes |-> 0, fails |-> 1]
                  Plus(st) == [passes |-> st.passes + delta.passes,
                               fails |-> st.fails + delta.fails]
              IN  /\ suite'.totalStats_ = Plus(suite.totalStats_)
                  /\ currentTestStats(suite') = Plus(currentTestStats(suite))
                  /\ Count(log', PassEvents \cup FailEvents) =
                        Count(log, PassEvents \cup FailEvents) + 1
      ]_vars

RECURSIVE Sum(_)
\* the elementwise sum of a sequence of TestStats
Sum(sts) ==
    IF sts = <<>> THEN TestStats
    ELSE LET rest == Sum(Tail(sts))
         IN  [passes |-> Head(sts).passes + rest.passes,
              fails |-> Head(sts).fails + rest.fails]

\* the per-test stats of the tests started so far in the latest run: as
\* many slots of stats_, from its end, as the run's formatter has seen headers
StatsOfRun ==
    SubSeq(suite.stats_,
           Len(suite.stats_) - Count(log, {"TestHeader"}) + 1, Len(suite.stats_))

\* C6: at every point during and after a run, the suite's total stats are
\* the elementwise sum of the per-test stats of the tests the run has
\* started so far.
C6_TotalIsSumOfTests == totalTestStats(suite) = Sum(StatsOfRun)

\* C6 witness: during the second test of a second run, both tests of the
\* run have counted an assertion, and a test of the first run is on record.
C6_Witness ==
    /\ runs = 2
    /\ pc = "body"
    /\ Len(StatsOfRun) = 2
    /\ Len(suite.stats_) > 2
    /\ StatsOfRun[1] = [passes |-> 0, fails |-> 1]
    /\ StatsOfRun[2] = [passes |-> 1, fails |-> 0]

\* C7: a run starts from total stats {0, 0}, whatever earlier runs counted,
\* and the total stats count the assertions reported to the formatter of
\* the latest run and no others.
C7_TotalResetPerRun ==
    /\ (pc = "loop" /\ Count(log, {"TestHeader"}) = 0) =>
          totalTestStats(suite) = [passes |-> 0, fails |-> 0]
    /\ totalTestStats(suite) =
          [passes |-> Count(log, PassEvents), fails |-> Count(log, FailEvents)]

\* C7 witness: a second run has started no test yet, and the first run
\* counted a pass and a failure.
C7_Witness ==
    /\ runs = 2
    /\ pc = "loop"
    /\ Len(log) = 1
    /\ Sum(suite.stats_) = [passes |-> 1, fails |-> 1]

\* C8 (as claimed): every executed test none of whose assertions failed has
\* a footer with aborted = FALSE and fails = 0.
C8_NoFailureNotAborted ==
    \A i \in Footers(log) :
       Count(Between(log, i), FailEvents) = 0 =>
          (~log[i].aborted /\ log[i].fails = 0)

\* C8 (amended): every executed test none of whose assertions failed, and
\* whose body returned (it threw nothing outside of an assertion), has a
\* footer with aborted = FALSE and fails = 0.
C8_NoFailureReturnedNotAborted ==
    /\ \A i \in Footers(log) :
          (Count(Between(log, i), FailEvents) = 0 /\ log[i - 1].ev # "AbortedTest") =>
             (~log[i].aborted /\ log[i].fails = 0)
    /\ (pc = "body" /\ Count(Current, FailEvents) = 0) =>
          LET footer == Last(AfterReturn.log)
          IN  footer.ev = "TestFooter" /\ ~footer.aborted /\ footer.fails = 0

\* C8 witness: a test made two assertions, both passed, and returned: its
\* footer says not aborted, 2 passes, 0 fails.
C8_Witness ==
    /\ pc = "loop"
    /\ \E i \in Footers(log) :
          /\ Count(Between(log, i), PassEvents) = 2
          /\ Len(Between(log, i)) = 2
          /\ ~log[i].aborted /\ log[i].passes = 2 /\ log[i].fails = 0

ExpectedThrowCalls ==
    {call \in Calls : call.kind \in {"throws", "throwsType"} /\ Outcome(call) = "pass"}

\* C9: when the action given to throws throws anything, or the action given
\* to throwsType throws an object of the named type, the assertion passes:
\* the pass counters of the test and of the suite go up by 1, one
\* formatPassedThrow call is made, Passed is returned and nothing is thrown
\* on; the test is not aborted and its body goes on.
C9_ExpectedThrowAbsorbed ==
    pc = "body" =>
       \A call \in ExpectedThrowCalls :
          LET r == Eval(Here, call)
              n == afterCall(r, test)
          IN  /\ r.ret = "Passed"
              /\ r.exc = NoExc
              /\ n.suite.totalStats_ = [suite.totalStats_ EXCEPT !.passes = @ + 1]
              /\ currentTestStats(n.suite) =
                    [currentTestStats(suite) EXCEPT !.passes = @ + 1]
              /\ n.log = Append(log, Event("PassedThrow", call.line, "", ""))
              /\ n.pc = "body"
              /\ n.test = test /\ ~n.test.aborted

\* C9 witness: a test passed an exception assertion, then made a check that
\* was evaluated, and returned: not aborted, 2 passes.
C9_Witness ==
    /\ pc = "loop"
    /\ Len(log) = 5
    /\ log[3].ev = "PassedThrow"
    /\ log[4].ev = "PassedCheck"
    /\ log[5].ev = "TestFooter"
    /\ ~log[5].aborted /\ log[5].passes = 2 /\ log[5].fails = 0

\* C10: when a test body throws outside of any assertion, runSome catches
\* it: the test is marked aborted, one formatAbortedTest call with line 0
\* is made, then the footer, no counter changes, and the loop goes on: a
\* run over all tests that has tests left starts the next one.
C10_BodyThrowCaught ==
    /\ pc = "body" =>
          \A what \in BodyExceptions :
             LET n == AfterThrow(what)
             IN  /\ EndsAborted(n, log)
                 /\ n.log[Len(log) + 1].line = 0
                 /\ n.suite = suite
    /\ (pc = "loop" /\ entry = "run" /\ Len(testIdx) < Len(suite.tests)) =>
          (ENABLED BeginTest /\ ~ENABLED Leave /\ ~ENABLED SkipIndex)

\* C10 witness: in a run over all tests, the first test threw something
\* that is no std::exception after a passed assertion and was reported
\* aborted at line 0; the second test was then run and returned.
C10_Witness ==
    /\ pc = "loop"
    /\ entry = "run"
    /\ Len(log) = 8
    /\ log[3].ev = "PassedCheck"
    /\ log[4].ev = "AbortedTest" /\ log[4].line = 0
    /\ log[4].a = "Uncaught exception outside of assertion."
    /\ log[5].ev = "TestFooter" /\ log[5].aborted /\ log[5].index = 1
    /\ log[6].ev = "TestHeader" /\ log[6].index = 2
    /\ log[8].ev = "TestFooter" /\ ~log[8].aborted

-----------------------------------------------------------------------------
(* The shape of a run's formatter calls *)

AssertionEvents == PassEvents \cup FailEvents

\* the formatter calls that may come right before a call of each kind
MayPrecede(ev) ==
    CASE ev = "TestHeader" -> {"TestSuiteStart", "TestFooter"}
      [] ev \in AssertionEvents -> {"TestHeader"} \cup AssertionEvents
      [] ev = "AbortedTest" -> {"TestHeader"} \cup AssertionEvents
      [] ev = "TestFooter" -> {"TestHeader", "AbortedTest"} \cup AssertionEvents
      [] ev = "TestSuiteEnd" -> {"TestSuiteStart", "TestFooter"}
      [] OTHER -> {}

\* the test numbers of the headers, or footers, of a log, in order
IndexesOf(lg, ev) ==
    LET sel == SelectSeq(lg, LAMBDA e : e.ev = ev)
    IN  [i \in DOMAIN sel |-> sel[i].index]

\* an index a caller asks for is in range: it names a registered test
InRange(index) == index >= 0 /\ index < Len(suite.tests)

\* the tests (numbered from 1) the indexes read so far ask for
Requested ==
    LET sel == SelectSeq(testIdx, InRange)
    IN  [i \in DOMAIN sel |-> sel[i] + 1]

\* C11: the formatter calls of a run are well bracketed: formatTestSuiteStart
\* is the first call, once; formatTestSuiteEnd is the last call of a run
\* that has returned, once, and is not made before; a test's header is
\* followed by its assertion calls, then at most one formatAbortedTest, then
\* its footer, which is the footer of the same test; a header comes only
\* after the start or a footer, and no assertion call is outside a test.
C11_WellBracketed ==
    runs > 0 =>
       /\ log[1].ev = "TestSuiteStart"
       /\ Count(log, {"TestSuiteStart"}) = 1
       /\ Count(log, {"TestSuiteEnd"}) = IF pc = "idle" THEN 1 ELSE 0
       /\ \A i \in 2..Len(log) : log[i - 1].ev \in MayPrecede(log[i].ev)
       /\ \A i \in Footers(log) : log[HeaderOf(log, i)].index = log[i].index
       /\ Last(log).ev \in
             CASE pc = "idle" -> {"TestSuiteEnd"}
               [] pc = "loop" -> {"TestSuiteStart", "TestFooter"}
               [] pc = "body" -> {"TestHeader"} \cup AssertionEvents

\* C11 witness: a run has returned after two tests: the first made a failing
\* assertion and was aborted, the second made a passing one and returned.
C11_Witness ==
    /\ pc = "idle"
    /\ Len(log) = 9
    /\ log[2].ev = "TestHeader" /\ log[3].ev \in FailEvents
    /\ log[4].ev = "AbortedTest" /\ log[5].ev = "TestFooter"
    /\ log[6].ev = "TestHeader" /\ log[7].ev \in PassEvents
    /\ log[8].ev = "TestFooter" /\ log[9].ev = "TestSuiteEnd"

\* C12: the tests a run has started are the tests its index sequence asks
\* for, in that order, and a test is started only when the one before it has
\* ended (between tests every header has its footer); run reads the indexes
\* 0, 1, ... of the registered tests in order and returns only when it has
\* read them all, so it starts every registered test once, in registration
\* order, whatever the tests before did.
C12_RunsInRequestedOrder ==
    pc # "idle" =>
       /\ IndexesOf(log, "TestHeader") = Requested
       /\ pc = "loop" => IndexesOf(log, "TestFooter") = Requested
       /\ pc = "body" =>
             /\ Len(IndexesOf(log, "TestFooter")) = Len(Requested) - 1
             /\ test.index = Requested[Len(Requested)]
       /\ entry = "run" =>
             /\ Len(testIdx) <= Len(suite.tests)
             /\ Requested = [i \in 1..Len(testIdx) |-> i]
             /\ (pc = "loop" /\ ENABLED Leave) =>
                   IndexesOf(log, "TestHeader") = [i \in 1..Len(suite.tests) |-> i]

\* C12 witness: run is about to return, having run both registered tests in
\* order although the first was aborted on a failure.
C12_Witness ==
    /\ pc = "loop" /\ entry = "run"
    /\ IndexesOf(log, "TestFooter") = <<1, 2>>
    /\ log[3].ev \in FailEvents /\ log[4].ev = "AbortedTest"
    /\ ENABLED Leave

\* C13: when the loop of runSome reads an index out of range (negative, or
\* not below the number of registered tests) nothing else changes: no
\* formatter call, no stats slot, no counter, and the loop stands at its
\* next element; every index in range read before or after it has its test
\* started.
C13_InvalidIndexSkipped ==
    /\ [][\A index \in -1..MaxTests :
             (pc = "loop" /\ testIdx' = Append(testIdx, index) /\ ~InRange(index)) =>
                (suite' = suite /\ log' = log /\ test' = test /\ pc' = "loop")]_vars
    /\ [](pc # "idle" => Len(IndexesOf(log, "TestHeader")) = Len(Requested))

\* C13 witness: runSome read -1, then 0: the index out of range left no
\* trace and the test in range after it ran, in the first stats slot.
C13_Witness ==
    /\ pc = "loop" /\ entry = "runSome"
    /\ Len(testIdx) = 2
    /\ testIdx[1] = -1 /\ testIdx[2] = 0
    /\ IndexesOf(log, "TestHeader") = <<1>>
    /\ Len(suite.stats_) = 1

-----------------------------------------------------------------------------
(* What leaves an assertion function *)

\* C14: in Throw mode every assertion call that does not pass (it fails, or
\* its callable throws what nobody asked for) leaves its function with an
\* AssertionFailureException, never with a TestAbortException and never by
\* returning, whatever onFail is; a call that passes returns Passed and
\* throws nothing, in either mode.
C14_ThrowModeOverridesPolicy ==
    pc = "body" =>
       \A call \in Calls :
          LET r == Eval(Here, call)
          IN  IF Outcome(call) = "pass"
              THEN r.exc = NoExc /\ r.ret = "Passed"
              ELSE suite.mode = "Throw" =>
                      /\ r.exc.type = "AssertionFailureException"
                      /\ r.ret = "none"

\* C14 witness: in a Throw run a test made a passing assertion and then a
\* failing check, which left with the AssertionFailureException that
\* runSome reports.
C14_Witness ==
    /\ suite.mode = "Throw"
    /\ pc = "loop"
    /\ Len(log) = 6
    /\ log[3].ev \in PassEvents
    /\ log[4].ev = "FailedCheck"
    /\ log[5].ev = "AbortedTest" /\ log[5].b = "Broken assertion in"

\* the calls that do not pass
NotPassing == {call \in Calls : Outcome(call) # "pass"}

\* C15 (as claimed): in Continue mode a weak assertion (onFail = Continue)
\* that does not pass never aborts the test: its body goes on; a strong
\* one (onFail = Abort) that does not pass aborts it.
C15_WeakNeverAborts ==
    [][ \A call \in NotPassing :
           (suite.mode = "Continue" /\ Issues(call)) =>
              IF call.onFail = "Continue"
              THEN pc' = "body" /\ ~test'.aborted
              ELSE pc' = "loop" /\ test'.aborted
      ]_vars

\* C16 (as claimed): whenever an assertion call that does not pass ends the
\* test as aborted, the formatAbortedTest call carries the line number
\* given to the assertion.
C16_AbortCarriesLine ==
    [][ \A call \in NotPassing :
           (Issues(call) /\ test'.aborted) =>
              /\ log'[Len(log') - 1].ev = "AbortedTest"
              /\ log'[Len(log') - 1].line = call.line
      ]_vars

ThrowsTypeCalls == {call \in Calls : call.kind = "throwsType"}

\* what C17 says of a throwsType call in every mode: an exception of the
\* named type is a pass; no exception is a failure reported by
\* formatFailedThrow; an exception of another type is reported by
\* formatUnexpectedException and not by formatFailedThrow, counts one
\* failure in the test's stats and in the total, and ends the test as
\* aborted whatever onFail is.
ThreeOutcomes(call) ==
    LET r == Eval(Here, call)
        n == afterCall(r, test)
        news == SubSeq(r.log, Len(log) + 1, Len(r.log))
        oneFailure ==
            /\ r.suite.totalStats_ = [suite.totalStats_ EXCEPT !.fails = @ + 1]
            /\ currentTestStats(r.suite) = [currentTestStats(suite) EXCEPT !.fails = @ + 1]
    IN  CASE Outcome(call) = "pass" ->
                /\ r.ret = "Passed"
                /\ news = <<Event("PassedThrow", call.line, "", "")>>
          [] Outcome(call) = "fail" ->
                /\ call.func.does = "return"
                /\ news = <<Event("FailedThrow", call.line, "", "")>>
                /\ oneFailure
          [] Outcome(call) = "error" ->
                /\ Len(news) = 1
                /\ news[1].ev = "UnexpectedException" /\ news[1].line = call.line
                /\ oneFailure
                /\ EndsAborted(n, r.log)

\* the caller's onFail decides what follows the call: the body goes on
\* (Continue) or the test ends as aborted (Abort)
PolicyDecides(call) ==
    LET r == Eval(Here, call)
        n == afterCall(r, test)
    IN  IF call.onFail = "Continue"
        THEN r.ret = "Failed" /\ n.pc = "body" /\ ~n.test.aborted
        ELSE r.exc.type = "TestAbortException" /\ EndsAborted(n, r.log)

-----------------------------------------------------------------------------
(* equal *)

\* the text of a value: its decimal digits if its type can be streamed
Rendering(T, v) ==
    IF T = "NonPrintable" THEN "N/A"
    ELSE CASE v = 5 -> "5" [] v = 6 -> "6"

\* C18: equal on a producer that returns a value: if the value equals the
\* expected one, Passed is returned and the one formatter call made is
\* formatPassedEquals; if not, Passed is not returned and the first
\* formatter call made is formatFailedEquals with the text of the expected
\* value first and the text of the produced value second, "N/A" for both
\* when the type cannot be streamed.  On a producer that throws, Passed is
\* not returned and formatPassedEquals is not called.
C18_EqualComparesAndReports ==
    /\ pc = "body" =>
       \A T \in ValueTypes, val \in Values, v \in Values,
          onFail \in OnAssertionFailure, line \in Lines :
          LET r == equal(Here, T, val, Returns(v), onFail, line)
              news == SubSeq(r.log, Len(log) + 1, Len(r.log))
          IN  IF v = val
              THEN /\ r.ret = "Passed"
                   /\ news = <<Event("PassedEquals", line, Rendering(T, val), "")>>
              ELSE /\ r.ret # "Passed"
                   /\ Count(news, {"PassedEquals"}) = 0
                   /\ news[1] = Event("FailedEquals", line, Rendering(T, val), Rendering(T, v))
    /\ pc = "body" =>
       \A T \in ValueTypes, val \in Values, f \in Throwing(0),
          onFail \in OnAssertionFailure, line \in Lines :
          LET r == equal(Here, T, val, f, onFail, line)
          IN  /\ r.ret # "Passed"
              /\ Count(r.log, {"PassedEquals"}) = Count(log, {"PassedEquals"})

\* C18 witness: a test compared 6 with the expected 5 in a type that can
\* be streamed, then in one that cannot, then returned.
C18_Witness ==
    /\ pc = "loop"
    /\ Len(log) = 5
    /\ log[3].ev = "FailedEquals" /\ log[3].a = "5" /\ log[3].b = "6"
    /\ log[4].ev = "FailedEquals" /\ log[4].a = "N/A" /\ log[4].b = "N/A"
    /\ log[5].ev = "TestFooter" /\ log[5].fails = 2

-----------------------------------------------------------------------------
(* The TestAbortException on its way to runSome *)

\* the exception first thrown inside the assertion function when the test
\* body makes the call (NoExc if none is thrown there), and the formatter
\* calls made up to then
Raised(call) ==
    IF call.kind = "equal"
    THEN equalTry(Here, call.T, call.val, call.func, call.onFail, call.line)
    ELSE Eval(Here, call)

\* C19 (as claimed): a TestAbortException thrown in an assertion function
\* is caught by runSome and by nothing before it: the formatAbortedTest
\* call that runSome makes comes right after the formatter calls made up to
\* the throw and carries the line and the reason the exception was thrown
\* with; the footer follows and the run goes on with its loop.
C19_AbortReachesRunLoopUntouched ==
    [][ \A call \in Calls :
           (Issues(call) /\ Raised(call).exc.type = "TestAbortException") =>
              /\ pc' = "loop"
              /\ Len(log') = Len(Raised(call).log) + 2
              /\ log'[Len(log') - 1] =
                    Event("AbortedTest", Raised(call).exc.line, Raised(call).exc.msg, "")
              /\ Last(log').ev = "TestFooter"
      ]_vars

-----------------------------------------------------------------------------
(* The formatter object of a run *)

\* C20: every call of run/runSome constructs one formatter, which nothing
\* held before, ahead of formatTestSuiteStart; while the run lasts, in
\* either mode and whatever its tests do, it is the only formatter alive
\* and the one suite.output names, on which every formatter call of the run
\* is made; when the run has returned, after formatTestSuiteEnd, no
\* formatter is alive.
C20_OneFormatterPerRun ==
    /\ nextId = runs + 1
    /\ pc = "idle" =>
          /\ live = {}
          /\ runs > 0 => Last(log).ev = "TestSuiteEnd"
    /\ pc # "idle" =>
          /\ live = {suite.output}
          /\ suite.output = runs
          /\ log[1].ev = "TestSuiteStart"

\* C20 witness: a second run, in Throw mode, has returned after a test that
\* failed an assertion and was aborted; the first run had a failing test
\* too; both formatters were deleted.
C20_Witness ==
    /\ pc = "idle"
    /\ runs = 2
    /\ suite.mode = "Throw"
    /\ suite.output = 2
    /\ live = {}
    /\ Len(suite.stats_) = 2
    /\ suite.stats_[1].fails = 1
    /\ suite.stats_[2].fails = 1
    /\ Count(log, {"AbortedTest"}) = 1

-----------------------------------------------------------------------------
(* Termination of a run *)

\* C21: a run in Continue mode whose test bodies terminate returns: it
\* reaches the state after formatTestSuiteEnd; and in the step by which it
\* returns, formatTestSuiteEnd is its last formatter call and every test
\* asked for by an index in range has had its header and its footer.  No failure,
\* abort or exception of a test ends it before.
C21_ContinueRunReturns ==
    /\ (pc # "idle" /\ suite.mode = "Continue") ~>
          (pc = "idle" /\ runs > 0 /\ Last(log).ev = "TestSuiteEnd")
    /\ [][(pc # "idle" /\ pc' = "idle" /\ suite.mode = "Continue") =>
            /\ Last(log').ev = "TestSuiteEnd"
            /\ IndexesOf(log', "TestHeader") = Requested
            /\ IndexesOf(log', "TestFooter") = Requested]_vars

\* C21 witness: a Continue run over two tests has returned; one test was
\* aborted by a failing assertion and one by an exception of its body
\* outside of assertions.
C21_Witness ==
    /\ pc = "idle"
    /\ runs > 0
    /\ suite.mode = "Continue"
    /\ Last(log).ev = "TestSuiteEnd"
    /\ Len(Requested) = 2
    /\ \E i, j \in DOMAIN log :
          /\ log[i].ev = "AbortedTest" /\ log[i].a = "Check failed."
          /\ log[j].ev = "AbortedTest" /\ log[j].a = "Uncaught exception outside of assertion."

-----------------------------------------------------------------------------
(* The Test records of the suite *)

\* C22 (as claimed): the aborted flag of the Test held in suite.tests is
\* written during the test's execution: the step in which a test is cut
\* short (runSome calls formatAbortedTest) leaves the flag of that Test
\* set, and the flag of a Test is set by no other step.
C22_SuiteRecordMarkedAborted ==
    [][ /\ (pc = "body" /\ pc' = "loop" /\ Count(log', {"AbortedTest"}) > Count(log, {"AbortedTest"}))
           => suite'.tests[test.index].aborted
        /\ \A p \in DOMAIN suite.tests :
              (suite'.tests[p].aborted /\ ~suite.tests[p].aborted) =>
                 (pc = "body" /\ test.index = p
                  /\ Count(log', {"AbortedTest"}) > Count(log, {"AbortedTest"}))
      ]_vars

\* C25: the Test at position p (from 1) of suite.tests has index p, so the
\* indexes are pairwise distinct; addTest gives the new Test the number of
\* tests registered before it plus one and leaves the others as they are;
\* no step of a run changes the index of a registered Test or the number
\* of tests.  The copy runSome works on has the index of its position too.
C25_IndexIsPosition ==
    /\ [](\A p \in DOMAIN suite.tests : suite.tests[p].index = p)
    /\ [](pc = "body" => test.index = Last(testIdx) + 1)
    /\ [][\A p \in DOMAIN suite.tests :
             p \in DOMAIN suite'.tests /\ suite'.tests[p].index = suite.tests[p].index]_vars
    /\ [][Len(suite'.tests) > Len(suite.tests) =>
             (/\ pc = "idle"
              /\ Len(suite'.tests) = Len(suite.tests) + 1
              /\ Last(suite'.tests).index = Len(suite.tests) + 1)]_vars
    /\ [][pc # "idle" => Len(suite'.tests) = Len(suite.tests)]_vars

\* C25 witness: a test was registered, the suite was run, a second test was
\* registered and the second run is executing it.
C25_Witness ==
    /\ runs = 2
    /\ pc = "body"
    /\ Len(suite.tests) = 2
    /\ Len(suite.stats_) = 2
    /\ test.index = 2
    /\ suite.tests[1].index = 1 /\ suite.tests[2].index = 2

-----------------------------------------------------------------------------
(* generateFailure, and the passing paths *)

ManualCalls == {call \in Calls : call.kind = "generateFailure"}

\* what C23 says of generateFailure in every mode: the call counts one
\* failure in the test's stats and in the total, counts no pass, and makes
\* one formatter call, formatManualFailure with its line
RecordsFailure(call) ==
    LET r == Eval(Here, call)
    IN  /\ r.suite.totalStats_ = [suite.totalStats_ EXCEPT !.fails = @ + 1]
        /\ r.suite.stats_ = [suite.stats_ EXCEPT ![suite.counter + 1].fails = @ + 1]
        /\ r.log = Append(log, Event("ManualFailure", call.line, "reason", ""))
        /\ r.ret # "Passed"

\* after the call the body goes on if onFail is Continue, and the test is
\* aborted at the call's line if onFail is Abort
ContinuesOrAbortsAtLine(call) ==
    LET r == Eval(Here, call)
        n == afterCall(r, test)
    IN  IF call.onFail = "Continue"
        THEN r.ret = "Failed" /\ n.pc = "body" /\ ~n.test.aborted
        ELSE /\ EndsAborted(n, r.log)
             /\ n.log[Len(r.log) + 1] = Event("AbortedTest", call.line, "Manual failure", "")

\* C23 (as claimed): generateFailure always records a failure; under
\* Continue policy the body goes on, under Abort policy the test is
\* aborted at that line.
C23_ManualFailurePolicyDecides ==
    [][ \A call \in ManualCalls :
           Issues(call) => (RecordsFailure(call) /\ ContinuesOrAbortsAtLine(call))
      ]_vars

\* C23 (amended): generateFailure always records a failure; in Continue
\* mode the body goes on under Continue policy and the test is aborted at
\* that line under Abort policy; in Throw mode the call leaves with an
\* AssertionFailureException under either policy.
C23_ManualFailure ==
    pc = "body" =>
       \A call \in ManualCalls :
          /\ RecordsFailure(call)
          /\ IF suite.mode = "Continue" THEN ContinuesOrAbortsAtLine(call)
             ELSE Eval(Here, call).exc.type = "AssertionFailureException"

\* C23 witness: in a Continue run a test made a manual failure that let it
\* go on and one at line 10 that aborted it.
C23_Witness ==
    /\ suite.mode = "Continue"
    /\ pc = "loop"
    /\ Len(log) = 6
    /\ log[3].ev = "ManualFailure"
    /\ log[4].ev = "ManualFailure" /\ log[4].line = 10
    /\ log[5] = Event("AbortedTest", 10, "Manual failure", "")
    /\ log[6].ev = "TestFooter" /\ log[6].aborted /\ log[6].fails = 2

PassingCalls == {call \in Calls : Outcome(call) = "pass"}

\* the formatter call that reports the pass of a call
PassedEvent(call) ==
    CASE call.kind = "check" -> Event("PassedCheck", call.line, "", "")
      [] call.kind = "equal" ->
             Event("PassedEquals", call.line, Rendering(call.T, call.val), "")
      [] call.kind \in {"throws", "throwsType"} -> Event("PassedThrow", call.line, "", "")

\* C24: a passing assertion of any kind, in either mode and under either
\* policy, adds 1 to the passes of the current test's stats and of the
\* total and changes nothing else of the suite (no fail counter, no other
\* slot); it makes one formatter call, the one reporting its pass, returns
\* Passed and throws nothing; the test is not marked aborted and its body
\* goes on.
C24_PassingFrame ==
    pc = "body" =>
       \A call \in PassingCalls :
          LET r == Eval(Here, call)
              n == afterCall(r, test)
          IN  /\ r.suite = [suite EXCEPT !.totalStats_.passes = @ + 1,
                                          !.stats_[suite.counter + 1].passes = @ + 1]
              /\ r.log = Append(log, PassedEvent(call))
              /\ r.ret = "Passed"
              /\ r.exc = NoExc
              /\ n.test = test
              /\ n.pc = "body"

\* C24 witness: in a Throw run a test passed an equal and a check, after
\* which its stats are 2 passes and no failure.
C24_Witness ==
    /\ suite.mode = "Throw"
    /\ pc = "body"
    /\ Len(log) = 4
    /\ log[3].ev = "PassedEquals"
    /\ log[4].ev = "PassedCheck"
    /\ currentTestStats(suite) = [passes |-> 2, fails |-> 0]
    /\ totalTestStats(suite) = [passes |-> 2, fails |-> 0]
    /\ ~test.aborted

-----------------------------------------------------------------------------
(* The mode of a run *)

\* C26: while a run lasts, suite.mode, which every assertion function
\* reads, is the mode that run was called with, whatever mode the runs
\* before it were called with; so in a run called with Continue, after a
\* run called with Throw or not, no assertion leaves with an
\* AssertionFailureException and a failing assertion with Continue policy
\* returns Failed.
C26_ModeOfTheRun ==
    /\ Len(hist.modes) = runs
    /\ pc # "idle" => suite.mode = Last(hist.modes)
    /\ (pc = "body" /\ Last(hist.modes) = "Continue") =>
          \A call \in NotPassing :
             LET r == Eval(Here, call)
             IN  /\ r.exc.type # "AssertionFailureException"
                 /\ (call.onFail = "Continue" /\ Outcome(call) = "fail") => r.ret = "Failed"

\* C26 witness: the first run was called with Throw and its test failed
\* an assertion; the second run was called with Continue,
\* and its test went on after a failing check and returned.
C26_Witness ==
    /\ hist.modes = <<"Throw", "Continue">>
    /\ pc = "loop"
    /\ Len(suite.stats_) = 2
    /\ suite.stats_[1] = [passes |-> 0, fails |-> 1]
    /\ Len(log) = 4
    /\ log[3].ev = "FailedCheck"
    /\ log[4].ev = "TestFooter" /\ ~log[4].aborted /\ log[4].fails = 1

-----------------------------------------------------------------------------
(* Counting, reporting, then resolving the policy *)

\* the formatter call that reports that a call failed or erred
FailureEventOf(call) ==
    IF Outcome(call) = "error" THEN "UnexpectedException"
    ELSE CASE call.kind = "check" -> "FailedCheck"
           [] call.kind = "equal" -> "FailedEquals"
           [] call.kind \in {"throws", "throwsType"} -> "FailedThrow"
           [] call.kind = "generateFailure" -> "ManualFailure"

\* C27: a call that fails or errs has counted its failure (in the test's
\* stats and in the total) and made the formatter call reporting it when
\* it leaves its function, whether it returns or throws; so when it aborts
\* the test, the failure is reported before formatAbortedTest is called
\* and the footer's stats include it.
C27_CountedAndReportedFirst ==
    pc = "body" =>
       \A call \in NotPassing :
          LET r == Eval(Here, call)
              n == afterCall(r, test)
          IN  /\ Len(r.log) > Len(log)
              /\ r.log[Len(log) + 1].ev = FailureEventOf(call)
              /\ r.log[Len(log) + 1].line = call.line
              /\ totalTestStats(r.suite).fails > totalTestStats(suite).fails
              /\ currentTestStats(r.suite).fails > currentTestStats(suite).fails
              /\ Last(r.log).ev # "AbortedTest"
              /\ r.exc # NoExc =>
                    /\ EndsAborted(n, r.log)
                    /\ Last(n.log).fails = currentTestStats(r.suite).fails
                    /\ Last(n.log).fails > currentTestStats(suite).fails

\* C27 witness: a test passed an assertion, then made a manual failure at
\* line 10 that aborted it: the failure is reported before the abort and
\* the footer counts it.
C27_Witness ==
    /\ pc = "loop"
    /\ Len(log) = 6
    /\ log[3].ev \in PassEvents
    /\ log[4].ev = "ManualFailure" /\ log[4].line = 10
    /\ log[5].ev = "AbortedTest"
    /\ log[6].ev = "TestFooter" /\ log[6].passes = 1 /\ log[6].fails = 1

-----------------------------------------------------------------------------
(* The per-test stats *)

\* C28: the test counter always names the last slot of stats_ (counter is
\* the number of slots minus 1, before the first test too); a slot is
\* added only when a test starts, one at a time, with value {0, 0}; the
\* slots before the last are never written again, those of earlier runs
\* included; the last slot changes only while its test's body runs, and
\* its counts only grow.
C28_StatsSlots ==
    /\ [](suite.counter = Len(suite.stats_) - 1)
    /\ [][Len(suite'.stats_) # Len(suite.stats_) =>
             (/\ pc = "loop" /\ pc' = "body"
              /\ suite'.stats_ = Append(suite.stats_, TestStats))]_vars
    /\ [][\A i \in DOMAIN suite.stats_ :
             i < Len(suite.stats_) => suite'.stats_[i] = suite.stats_[i]]_vars
    /\ [][(suite.stats_ # <<>> /\ Len(suite'.stats_) = Len(suite.stats_)
            /\ Last(suite'.stats_) # Last(suite.stats_)) =>
             (/\ pc = "body"
              /\ Last(suite'.stats_).passes >= Last(suite.stats_).passes
              /\ Last(suite'.stats_).fails >= Last(suite.stats_).fails)]_vars

\* C28 witness: the second test of a second run has counted a pass in the
\* fourth slot; the three slots before it hold what their tests counted.
C28_Witness ==
    /\ runs = 2
    /\ pc = "body"
    /\ suite.counter = 3
    /\ suite.stats_ = <<[passes |-> 0, fails |-> 1], [passes |-> 0, fails |-> 0],
                        [passes |-> 0, fails |-> 0], [passes |-> 1, fails |-> 0]>>

\* C29: the stats carried by the footer of every executed test are the
\* numbers of formatter calls reporting a pass and reporting a failure
\* (failed check, equals or throw, unexpected exception, manual failure)
\* made between the test's header and its footer; and while a test's body
\* runs, its current stats are those numbers so far.
C29_FooterCountsEvents ==
    /\ \A i \in Footers(log) :
          /\ log[i].passes = Count(Between(log, i), PassEvents)
          /\ log[i].fails = Count(Between(log, i), FailEvents)
    /\ pc = "body" =>
          currentTestStats(suite) =
             [passes |-> Count(Current, PassEvents), fails |-> Count(Current, FailEvents)]

\* C29 witness: a test passed a check and then failed an equal that threw:
\* equal reported the failure and then an unexpected exception, and the
\* footer counts 1 pass and 2 failures.
C29_Witness ==
    /\ pc = "loop"
    /\ Len(log) = 7
    /\ log[3].ev = "PassedCheck"
    /\ log[4].ev = "FailedEquals"
    /\ log[5].ev = "UnexpectedException"
    /\ log[6].ev = "AbortedTest"
    /\ log[7].ev = "TestFooter" /\ log[7].passes = 1 /\ log[7].fails = 2

-----------------------------------------------------------------------------
(* A run and what earlier runs left *)

\* C30: a run reports what its twin reports.  At every point of a run on
\* a suite that earlier runs have used, the formatter calls made so far
\* (with the stats and the aborted flag each carries), the local test, the
\* current test's stats, the total, the mode and the tests' records are
\* those of the same call made on a suite just constructed, given the
\* same indexes and the same behaviour of the test bodies; after the run,
\* the whole event sequence and the total are.  So two runs given the same
\* indexes, mode and bodies report the same, whatever the first left.
C30_SameAsOnNewSuite ==
    runs > 0 =>
       /\ log = hist.twin.log
       /\ totalTestStats(suite) = totalTestStats(hist.twin.suite)
       /\ suite.mode = hist.twin.suite.mode
       /\ pc # "idle" => suite.tests = hist.twin.suite.tests
       /\ pc = "body" =>
             /\ test = hist.twin.test
             /\ currentTestStats(suite) = currentTestStats(hist.twin.suite)

\* C30 witness: the second of two runs called with Continue has returned.
\* Its only test failed and was aborted, as the only test of the first
\* run did: the suite holds two slots where the twin holds one, and the
\* events are the twin's.
C30_Witness ==
    /\ runs = 2
    /\ pc = "idle"
    /\ hist.modes = <<"Continue", "Continue">>
    /\ suite.stats_ = <<[passes |-> 0, fails |-> 1], [passes |-> 0, fails |-> 1]>>
    /\ hist.twin.suite.stats_ = <<[passes |-> 0, fails |-> 1]>>
    /\ suite.counter = 1 /\ hist.twin.suite.counter = 0
    /\ Len(log) = 6
    /\ log[4].ev = "AbortedTest"
    /\ log[5].ev = "TestFooter" /\ log[5].aborted /\ log[5].fails = 1
    /\ log[6].ev = "TestSuiteEnd" /\ log[6].fails = 1

-----------------------------------------------------------------------------
(* A throw of the test body outside of any assertion *)

\* C31: when the test body throws outside of any assertion, the suite is
\* left as it was (the current test's stats and the total included): the
\* test ends as aborted, one formatAbortedTest call and then the footer
\* carrying the stats the test had before the throw.
C31_BodyThrowCountsNothing ==
    pc = "body" =>
       \A what \in BodyExceptions :
          LET n == AfterThrow(what)
          IN  /\ n.suite = suite
              /\ totalTestStats(n.suite) = totalTestStats(suite)
              /\ currentTestStats(n.suite) = currentTestStats(suite)
              /\ EndsAborted(n, log)
              /\ Count(n.log, FailEvents) = Count(log, FailEvents)
              /\ Last(n.log).passes = currentTestStats(suite).passes
              /\ Last(n.log).fails = currentTestStats(suite).fails

\* C31 witness: a run has returned whose only test passed a check and then
\* threw: the test is aborted, its footer counts 1 pass and no failure,
\* and the total at the end of the suite has fails = 0.
C31_Witness ==
    /\ pc = "idle"
    /\ Len(log) = 6
    /\ log[3].ev = "PassedCheck"
    /\ log[4].ev = "AbortedTest" /\ log[4].a = "Uncaught exception: "
    /\ log[5].ev = "TestFooter" /\ log[5].aborted
    /\ log[5].passes = 1 /\ log[5].fails = 0
    /\ log[6].ev = "TestSuiteEnd" /\ log[6].passes = 1 /\ log[6].fails = 0
    /\ totalTestStats(suite).fails = 0

-----------------------------------------------------------------------------
(* An index given more than once *)

\* how many times x is in seq
Occurrences(seq, x) == Cardinality({i \in DOMAIN seq : seq[i] = x})

\* how many calls named ev the formatter received for test number p
CallsFor(ev, p) == Cardinality({i \in DOMAIN log : log[i].ev = ev /\ log[i].index = p})

\* the stats carried by the footers of the run, in order
FooterStats ==
    LET sel == SelectSeq(log, LAMBDA e : e.ev = "TestFooter")
    IN  [i \in DOMAIN sel |-> [passes |-> sel[i].passes, fails |-> sel[i].fails]]

\* C32: a test whose index the loop has read k times has been started k
\* times, each time with its own header and (once ended) its own footer;
\* every header shows the test not aborted with stats {0, 0}, whatever an
\* earlier execution of the same test did; every start adds one slot
\* {0, 0} to stats_ and takes the test as registered; and between tests
\* the total is the sum of the stats of all the footers, those of the
\* repeated executions included.
C32_RepeatedIndex ==
    /\ [](pc # "idle" =>
            \A p \in 1..Len(suite.tests) :
               /\ CallsFor("TestHeader", p) = Occurrences(testIdx, p - 1)
               /\ CallsFor("TestFooter", p) =
                     IF pc = "body" /\ test.index = p
                     THEN Occurrences(testIdx, p - 1) - 1
                     ELSE Occurrences(testIdx, p - 1))
    /\ [](\A i \in DOMAIN log :
            log[i].ev = "TestHeader" =>
               (~log[i].aborted /\ log[i].passes = 0 /\ log[i].fails = 0))
    /\ [](pc = "loop" => totalTestStats(suite) = Sum(FooterStats))
    /\ [][Count(log', {"TestHeader"}) > Count(log, {"TestHeader"}) =>
             (/\ suite'.stats_ = Append(suite.stats_, TestStats)
              /\ currentTestStats(suite') = TestStats
              /\ test' = Test(Last(testIdx') + 1)
              /\ Last(log') = TestEvent("TestHeader", Test(Last(testIdx') + 1), TestStats))]_vars

\* C32 witness: runSome was given index 0 twice.  The first execution of
\* the test failed and was aborted, the second starts not aborted, passes
\* an assertion and returns; each has its header, footer and slot, and the
\* total counts both.
C32_Witness ==
    /\ pc = "loop"
    /\ testIdx = <<0, 0>>
    /\ CallsFor("TestHeader", 1) = 2
    /\ CallsFor("TestFooter", 1) = 2
    /\ FooterStats = <<[passes |-> 0, fails |-> 1], [passes |-> 1, fails |-> 0]>>
    /\ StatsOfRun = <<[passes |-> 0, fails |-> 1], [passes |-> 1, fails |-> 0]>>
    /\ log[5].ev = "TestFooter" /\ log[5].aborted
    /\ log[6].ev = "TestHeader" /\ ~log[6].aborted
    /\ ~Last(log).aborted
    /\ totalTestStats(suite) = [passes |-> 1, fails |-> 1]

-----------------------------------------------------------------------------
(* The formatters shipped with the library: what they write *)

MaxCalls == 2

\* enum class LogLevel
Errors == 1
Messages == 2
Everything == 3
LogLevel == {Errors, Messages, Everything}

\* the formatter classes followed: the Markdown formatter at each level and
\* the HTML formatter (which has no level)
Formatters ==
    {[class |-> "Markdown", level |-> level] : level \in LogLevel}
    \cup {[class |-> "HTML", level |-> 0]}

\* the stats a footer or the end of a suite is called with
StatsValues == {[passes |-> p, fails |-> f] : p \in 0..1, f \in 0..1}

\* the tests a footer is called with
FooterTests == {[Test(1) EXCEPT !.aborted = b] : b \in BOOLEAN}

\* TestResultFormatter::lineNr
lineNr(line) == IF line > 0 THEN ToString(line) ELSE "???"

\* TestResultFormatterMarkdown::lineNr: "Line " + TestResultFormatter::lineNr(line)
lineNrMarkdown(line) == <<"Line", lineNr(line)>>

\* one piece of output: its CSS class (HTML), its line number, its text and
\* the values streamed into it
Item(class, nr, txt, a, b, c) ==
    [class |-> class, nr |-> nr, txt |-> txt, a |-> a, b |-> b, c |-> c]

\* TestResultFormatterMarkdown::logMesages
logMesages(level) == level >= Messages

\* logPasses true from level Messages on
logPasses_FromMessages(level) == level >= Messages

\* TestResultFormatterMarkdown::logPasses
logPasses(level) == level >= Everything

\* What TestResultFormatterMarkdown<level> writes when the call e is made on it.
TestResultFormatterMarkdown(level, e) ==
    LET nr == lineNrMarkdown(e.line)
        none == <<>>
    IN  CASE e.ev = "TestHeader" ->
                <<Item("", none, "Test", ToString(e.index), "", "")>>
          [] e.ev = "TestFooter" ->
                <<Item("", none, "Total passed / failed assertions",
                       ToString(e.passes), ToString(e.fails), "")>>
          [] e.ev = "TestSuiteStart" -> <<>>
          [] e.ev = "TestSuiteEnd" ->
                <<Item("", none, "Summary", ToString(e.passes), ToString(e.fails), "")>>
          [] e.ev = "AbortedTest" -> <<Item("", nr, "Test aborted", e.a, e.b, "")>>
          [] e.ev = "PassedCheck" ->
                IF logPasses(level) THEN <<Item("", nr, "Passed check", e.a, "", "")>> ELSE <<>>
          [] e.ev = "PassedThrow" ->
                IF logPasses(level) THEN <<Item("", nr, "Passed throw", e.a, "", "")>> ELSE <<>>
          [] e.ev = "PassedEquals" ->
                IF logPasses(level) THEN <<Item("", nr, "Passed equals", e.a, e.b, "")>> ELSE <<>>
          [] e.ev = "Message" ->
                IF logMesages(level) THEN <<Item("", nr, "Message", e.a, "", "")>> ELSE <<>>
          [] e.ev = "Expr" ->
                IF logMesages(level) THEN <<Item("", nr, "evaluates to", e.a, e.b, "")>> ELSE <<>>
          [] e.ev = "UnexpectedException" ->
                <<Item("", nr, "Exception was caught", e.b, e.a, "")>>
          [] e.ev = "FailedCheck" -> <<Item("", nr, "Assertion failed", e.a, "", "")>>
          [] e.ev = "FailedThrow" -> <<Item("", nr, "Expected exception", e.a, "", "")>>
          [] e.ev = "FailedEquals" -> <<Item("", nr, "Equals failed", e.a, e.b, "")>>
          [] e.ev = "ManualFailure" -> <<Item("", nr, "Manual failure, reason", e.a, "", "")>>

\* the class looking at the number of failures before the aborted flag
clas_FailsFirst(e) ==
    IF e.fails = 0 THEN "passed"
    ELSE IF e.aborted THEN "aborted"
    ELSE "failed"

\* TestResultFormatterHTML::formatTestFooter: the class given to the test's header
clas(e) ==
    IF e.aborted THEN "aborted"
    ELSE IF e.fails = 0 THEN "passed"
    ELSE "failed"

\* TestResultFormatterHTML::formatTestFooter: the badge
annotation(e) ==
    IF e.aborted THEN "aborted badge"
    ELSE IF e.fails = 0 THEN "passed badge"
    ELSE "failed badge"

\* What TestResultFormatterHTML writes when the call e is made on it.  The
\* success rate of the summary is a float quotient, kept as its numerator
\* and denominator (denominator 0: not a number).
TestResultFormatterHTML(e) ==
    LET nr == <<lineNr(e.line)>>
        none == <<>>
    IN  CASE e.ev = "TestHeader" -> <<Item("test", none, "Test", ToString(e.index), "", "")>>
          [] e.ev = "TestFooter" ->
                <<Item(clas(e), none, annotation(e), ToString(e.index), "", "")>>
          [] e.ev = "TestSuiteStart" ->
                <<Item("content", none, "Generated by LiTest", "", "", "")>>
          [] e.ev = "TestSuiteEnd" ->
                <<Item("", none, "Summary", ToString(e.passes), ToString(e.fails),
                       <<ToString(e.passes * 100), ToString(e.passes + e.fails)>>)>>
          [] e.ev = "AbortedTest" ->
                <<Item("log-item abort", nr, "Test aborted", e.a, e.b, "")>>
          [] e.ev = "PassedCheck" ->
                <<Item("log-item pass check", nr, "Passed check", e.a, "", "")>>
          [] e.ev = "PassedThrow" ->
                <<Item("log-item pass throw", nr, "Passed throw check", e.a, "", "")>>
          [] e.ev = "PassedEquals" ->
                <<Item("log-item pass equals", nr, "Passed equals", e.a, e.b, "")>>
          [] e.ev = "Message" -> <<Item("log-item message", nr, "Message", e.a, "", "")>>
          [] e.ev = "Expr" ->
                <<Item("log-item message", nr, "Print expression", e.a, e.b, "")>>
          [] e.ev = "UnexpectedException" ->
                <<Item("log-item fail unexpected-exception", nr, "Caught exception",
                       e.b, e.a, "")>>
          [] e.ev = "FailedCheck" ->
                <<Item("log-item fail broken-assertion", nr, "Failed check", e.a, "", "")>>
          [] e.ev = "FailedThrow" ->
                <<Item("log-item fail no-exception", nr, "Expected exception", e.a, "", "")>>
          [] e.ev = "FailedEquals" ->
                <<Item("log-item fail unexpected-value", nr, "Failed equals", e.a, e.b, "")>>
          [] e.ev = "ManualFailure" ->
                <<Item("log-item fail manual", nr, "Manual failure", e.a, "", "")>>

\* what the formatter f writes when the call e is made on it (the hooks of
\* TestResultFormatter itself do nothing)
Write(f, e) ==
    IF f.class = "Markdown" THEN TestResultFormatterMarkdown(f.level, e)
    ELSE IF f.class = "HTML" THEN TestResultFormatterHTML(e)
    ELSE <<>>

\* a formatter of one of the shipped classes, constructed on an empty stream
FormatterInit ==
    /\ InitSuite
    /\ hist = [on |-> FALSE, modes |-> <<>>, twin |-> NoTwin]
    /\ formatter \in Formatters
    /\ ostr = <<>>

\* the call e is made on the formatter
Receive(e) ==
    /\ Len(log) < MaxCalls
    /\ log' = Append(log, e)
    /\ ostr' = ostr \o Write(formatter, e)
    /\ UNCHANGED <<suite, live, nextId, pc, entry, testIdx, test, runs, issued, hist,
                   formatter>>

formatTestHeader == Receive(TestEvent("TestHeader", Test(1), TestStats))

formatTestFooter ==
    \E t \in FooterTests, stats \in StatsValues : Receive(TestEvent("TestFooter", t, stats))

formatAbortedTest ==
    \E line \in Lines : Receive(Event("AbortedTest", line, "reason", ""))

formatTestSuiteStart == Receive(TestEvent("TestSuiteStart", Test(0), TestStats))

formatTestSuiteEnd ==
    \E stats \in StatsValues : Receive(TestEvent("TestSuiteEnd", Test(0), stats))

formatPassedCheck == \E line \in Lines : Receive(Event("PassedCheck", line, "expr", ""))

formatPassedThrow == \E line \in Lines : Receive(Event("PassedThrow", line, "expr", ""))

formatPassedEquals == \E line \in Lines : Receive(Event("PassedEquals", line, "expr", "val"))

formatMessage == \E line \in Lines : Receive(Event("Message", line, "message", ""))

formatExpr == \E line \in Lines : Receive(Event("Expr", line, "exprstr", "valstr"))

formatUnexpectedException ==
    \E line \in Lines : Receive(Event("UnexpectedException", line, "expr", "msg"))

formatFailedCheck == \E line \in Lines : Receive(Event("FailedCheck", line, "expr", ""))

formatFailedEquals == \E line \in Lines : Receive(Event("FailedEquals", line, "val", "res"))

formatFailedThrow == \E line \in Lines : Receive(Event("FailedThrow", line, "expr", ""))

formatManualFailure == \E line \in Lines : Receive(Event("ManualFailure", line, "reason", ""))

FormatterNext ==
    \/ formatTestHeader
    \/ formatTestFooter
    \/ formatAbortedTest
    \/ formatTestSuiteStart
    \/ formatTestSuiteEnd
    \/ formatPassedCheck
    \/ formatPassedThrow
    \/ formatPassedEquals
    \/ formatMessage
    \/ formatExpr
    \/ formatUnexpectedException
    \/ formatFailedCheck
    \/ formatFailedEquals
    \/ formatFailedThrow
    \/ formatManualFailure

FormatterSpec == FormatterInit /\ [][FormatterNext]_vars

\* the number of pieces the step adds to the stream
Wrote == Len(ostr') - Len(ostr)

\* the step is a call named in evs
Called(evs) == Len(log') = Len(log) + 1 /\ Last(log').ev \in evs

C34_HTMLFooterClass ==
    [][(formatter.class = "HTML" /\ Called({"TestFooter"})) =>
         LET e == Last(log')
             w == Last(ostr')
         IN  /\ Wrote = 1
             /\ SubSeq(ostr', 1, Len(ostr)) = ostr
             /\ w.class \in {"aborted", "passed", "failed"}
             /\ w.class = "aborted" <=> e.aborted
             /\ w.class = "passed" <=> (~e.aborted /\ e.fails = 0)
             /\ w.class = "failed" <=> (~e.aborted /\ e.fails # 0)]_vars

\* C34 witness: the HTML formatter was called for the footer of an aborted
\* test with no failure, then for the footer of a test with a failure that
\* was not aborted: it wrote aborted, then failed.
C34_Witness ==
    /\ formatter.class = "HTML"
    /\ Len(log) = 2
    /\ log[1].ev = "TestFooter" /\ log[1].aborted /\ log[1].fails = 0
    /\ log[2].ev = "TestFooter" /\ ~log[2].aborted /\ log[2].fails = 1
    /\ Len(ostr) = 2
    /\ ostr[1].class = "aborted"
    /\ ostr[2].class = "failed"

=============================================================================
